---- MODULE Spec2Model ----
(***************************************************************************)
(* Model of get_daily_arxiv_paper.py: the classification of an arXiv       *)
(* listing (fetch_arxiv_papers), the concurrent enrichment of the retained *)
(* records (process_papers_by_date / process_single_paper) and the merge   *)
(* of a rendered date section into a weekly markdown document              *)
(* (update_markdown_file).                                                 *)
(*                                                                         *)
(* Text is modelled character by character: a Python str is a TLA+ string, *)
(* Len / SubSeq / \o are Python's len / slicing / +.  Python indices are   *)
(* 0-based; the operators below keep the 0-based indices of the source and *)
(* convert at the SubSeq calls.                                            *)
(***************************************************************************)
EXTENDS Integers, Sequences, FiniteSets, TLC

\* ------------------------------------------------------------------------
\* Python str primitives
\* ------------------------------------------------------------------------

\* s[a:b] for 0 <= a, 0 <= b (indices past the end are clamped)
PySlice(s, a, b) ==
    IF a >= Len(s) \/ a >= b THEN ""
    ELSE SubSeq(s, a + 1, IF b > Len(s) THEN Len(s) ELSE b)

\* s[a:]
PyFrom(s, a) == PySlice(s, a, Len(s))

\* s[:b]
PyTo(s, b) == PySlice(s, 0, b)

\* s[i] for 0 <= i < len(s)
PyChar(s, i) == SubSeq(s, i + 1, i + 1)

\* s.startswith(p)
StartsWith(s, p) == Len(s) >= Len(p) /\ SubSeq(s, 1, Len(p)) = p

\* s.endswith(p)
EndsWith(s, p) == Len(s) >= Len(p) /\ SubSeq(s, Len(s) - Len(p) + 1, Len(s)) = p

\* the characters str.strip() / \s treat as whitespace
Whitespace == {" ", "\t", "\n", "\r", "\f"}

Digits == {"0", "1", "2", "3", "4", "5", "6", "7", "8", "9"}

RECURSIVE RStripSet(_, _)
\* s.rstrip(chars)
RStripSet(s, chars) ==
    IF Len(s) > 0 /\ PyChar(s, Len(s) - 1) \in chars
    THEN RStripSet(PyTo(s, Len(s) - 1), chars)
    ELSE s

RECURSIVE LStripSet(_, _)
\* s.lstrip(chars)
LStripSet(s, chars) ==
    IF Len(s) > 0 /\ PyChar(s, 0) \in chars
    THEN LStripSet(PyFrom(s, 1), chars)
    ELSE s

\* s.rstrip('\n')
RStripNL(s) == RStripSet(s, {"\n"})

\* s.lstrip('\n')
LStripNL(s) == LStripSet(s, {"\n"})

\* s.rstrip()
RStrip(s) == RStripSet(s, Whitespace)

\* s.strip()
Strip(s) == LStripSet(RStripSet(s, Whitespace), Whitespace)

RECURSIVE Join(_, _)
\* sep.join(items)
Join(sep, items) ==
    IF Len(items) = 0 THEN ""
    ELSE IF Len(items) = 1 THEN items[1]
    ELSE items[1] \o sep \o Join(sep, Tail(items))

RECURSIVE SplitFrom(_, _, _, _)
\* s.split(sep) for a one-character sep: scan from index i, the current
\* piece started at index from
SplitFrom(s, sep, from, i) ==
    IF i >= Len(s) THEN << PySlice(s, from, Len(s)) >>
    ELSE IF PyChar(s, i) = sep
         THEN << PySlice(s, from, i) >> \o SplitFrom(s, sep, i + 1, i + 1)
         ELSE SplitFrom(s, sep, from, i + 1)

Split(s, sep) == SplitFrom(s, sep, 0, 0)

RECURSIVE MapChars(_, _, _)
\* chained single-character str.replace calls: every character c of s that
\* is in DOMAIN table is replaced by table[c]
MapChars(s, table, i) ==
    IF i >= Len(s) THEN ""
    ELSE (IF PyChar(s, i) \in DOMAIN table THEN table[PyChar(s, i)] ELSE PyChar(s, i))
         \o MapChars(s, table, i + 1)

\* dict.get(key, default)
Get(d, key, default) == IF key \in DOMAIN d THEN d[key] ELSE default

\* the order of characters the model compares (ASCII order of '-' and digits)
CharOrder == "-0123456789"

Ord(c) == CHOOSE i \in 1..Len(CharOrder) : SubSeq(CharOrder, i, i) = c

RECURSIVE StrGreaterFrom(_, _, _)
\* a > b on str (lexicographic), for strings over CharOrder
StrGreaterFrom(a, b, i) ==
    IF i >= Len(a) THEN FALSE
    ELSE IF i >= Len(b) THEN TRUE
    ELSE IF PyChar(a, i) = PyChar(b, i) THEN StrGreaterFrom(a, b, i + 1)
    ELSE Ord(PyChar(a, i)) > Ord(PyChar(b, i))

StrGreater(a, b) == StrGreaterFrom(a, b, 0)

\* ------------------------------------------------------------------------
\* Dates (datetime.strptime(date_str, '%Y-%m-%d'))
\* ------------------------------------------------------------------------

DigitVal(c) == CHOOSE n \in 0..9 : ToString(n) = c

\* int() of a two-digit field
Num2(s) == 10 * DigitVal(PyChar(s, 0)) + DigitVal(PyChar(s, 1))

\* int() of a four-digit field
Num4(s) == 100 * Num2(PySlice(s, 0, 2)) + Num2(PySlice(s, 2, 4))

IsLeap(y) == (y % 4 = 0 /\ y % 100 # 0) \/ y % 400 = 0

DaysInMonth(y, m) ==
    IF m = 2 THEN (IF IsLeap(y) THEN 29 ELSE 28)
    ELSE IF m \in {4, 6, 9, 11} THEN 30 ELSE 31

\* the text has the shape dddd-dd-dd
IsDateShape(s) ==
    /\ Len(s) = 10
    /\ \A i \in {0, 1, 2, 3, 5, 6, 8, 9} : PyChar(s, i) \in Digits
    /\ PyChar(s, 4) = "-"
    /\ PyChar(s, 7) = "-"

\* strptime succeeds (no ValueError) on a text of the shape dddd-dd-dd
StrptimeOk(s) ==
    /\ IsDateShape(s)
    /\ Num4(PySlice(s, 0, 4)) >= 1
    /\ Num2(PySlice(s, 5, 7)) \in 1..12
    /\ Num2(PySlice(s, 8, 10)) \in 1..DaysInMonth(Num4(PySlice(s, 0, 4)), Num2(PySlice(s, 5, 7)))

\* f"[arXiv{str(dt.year)[-2:]}{dt.month:02d}{dt.day:02d}]", "" on any exception
get_arxiv_prefix(date_str) ==
    IF StrptimeOk(date_str)
    THEN "[arXiv" \o PySlice(date_str, 2, 4) \o PySlice(date_str, 5, 7)
                  \o PySlice(date_str, 8, 10) \o "]"
    ELSE ""

\* ------------------------------------------------------------------------
\* Rendering (format_paper_with_enhanced_info, the section body)
\* ------------------------------------------------------------------------

\* any(cat == 'cs.DC' for cat in (p.get('categories', []) or []))
IsCsDC(paper) ==
    LET categories == Get(paper, "categories", << >>)
    IN  \E i \in DOMAIN categories : categories[i] = "cs.DC"

\* truth value of paper.get(key) for a str field
Truthy(paper, key) == key \in DOMAIN paper /\ paper[key] # ""

\* truth value of paper.get(key) for a bool field
TruthyFlag(paper, key) == key \in DOMAIN paper /\ paper[key]

\* [t.strip() for t in text.split(',') if t.strip()]
StripItems(text) ==
    LET parts == Split(text, ",")
        stripped == [i \in DOMAIN parts |-> Strip(parts[i])]
        NonEmpty(t) == t # ""
    IN  SelectSeq(stripped, NonEmpty)

\* llm_summary.replace('<', '&lt;').replace('>', '&gt;').replace('{', '\\{').replace('}', '\\}')
EscapeTable == ("<" :> "&lt;") @@ (">" :> "&gt;") @@ ("{" :> "\\{") @@ ("}" :> "\\}")

escaped_summary(llm_summary) == MapChars(llm_summary, EscapeTable, 0)

format_paper_with_enhanced_info(paper, date_str) ==
    LET title == Get(paper, "title", "N/A")
        arxiv_prefix == get_arxiv_prefix(date_str)
    IN  IF ~IsCsDC(paper)
        THEN LET pdf_link == Get(paper, "pdf_link", "")
                 paper_link == IF pdf_link # "" /\ pdf_link # "N/A"
                               THEN pdf_link ELSE Get(paper, "id", "")
             IN  "- " \o arxiv_prefix \o " " \o title \o " [link](" \o paper_link \o ")\n"
        ELSE LET authors == Join(", ", Get(paper, "authors", << >>))
                 pdf_link == Get(paper, "pdf_link", "N/A")
                 t1 == IF Truthy(paper, "tag1") THEN << "[" \o paper["tag1"] \o "]" >> ELSE << >>
                 t2 == IF Truthy(paper, "tag2") THEN << "[" \o paper["tag2"] \o "]" >> ELSE << >>
                 tag3_items == IF Truthy(paper, "tag3") THEN StripItems(paper["tag3"]) ELSE << >>
                 t3 == IF Len(tag3_items) > 0
                       THEN << "[" \o Join(", ", tag3_items) \o "]" >> ELSE << >>
                 tags == t1 \o t2 \o t3
                 tags_str == IF Len(tags) > 0 THEN Join(", ", tags) ELSE "TBD"
                 institution == Get(paper, "institution", "TBD")
                 llm_summary == Strip(Get(paper, "llm_summary", ""))
             IN  "- **" \o arxiv_prefix \o " " \o title \o "**\n"
                 \o "  - **tags:** " \o tags_str \o "\n"
                 \o "  - **authors:** " \o authors \o "\n"
                 \o "  - **institution:** " \o institution \o "\n"
                 \o "  - **link:** " \o pdf_link \o "\n"
                 \o (IF llm_summary # ""
                     THEN "  - **Simple LLM Summary:** " \o escaped_summary(llm_summary) \o "\n"
                     ELSE "")
                 \o "\n"

RECURSIVE FormatAll(_, _)
\* the concatenation of the formatted entries of a list, in list order
FormatAll(papers, date_str) ==
    IF Len(papers) = 0 THEN ""
    ELSE format_paper_with_enhanced_info(Head(papers), date_str)
         \o FormatAll(Tail(papers), date_str)

\* [p for p in all_papers if any(cat == 'cs.DC' ...)]
csdc_papers(all_papers) == SelectSeq(all_papers, IsCsDC)

\* [p for p in all_papers if not any(cat == 'cs.DC' ...)]
other_papers(all_papers) ==
    LET NotCsDC(p) == ~IsCsDC(p) IN SelectSeq(all_papers, NotCsDC)

\* [p for p in other_papers if p.get('rl_match')]
rl_papers(all_papers) ==
    LET RlMatch(p) == TruthyFlag(p, "rl_match") IN SelectSeq(other_papers(all_papers), RlMatch)

\* [p for p in other_papers if p.get('accelerat_match')]
accelerat_papers(all_papers) ==
    LET AcMatch(p) == TruthyFlag(p, "accelerat_match")
    IN  SelectSeq(other_papers(all_papers), AcMatch)

\* the new section text built by update_markdown_file
papers_content(all_papers, date_str) ==
    "## " \o date_str \o "\n\n"
    \o (IF Len(all_papers) > 0
        THEN "**cs.DC total: " \o ToString(Len(csdc_papers(all_papers))) \o "**\n\n"
             \o FormatAll(csdc_papers(all_papers), date_str)
             \o "\n**cs.AI/cs.LG contains \"reinforcement learning\" total: "
             \o ToString(Len(rl_papers(all_papers))) \o "**\n"
             \o FormatAll(rl_papers(all_papers), date_str)
             \o "\n**cs.AI/cs.LG contains \"accelerate\" total: "
             \o ToString(Len(accelerat_papers(all_papers))) \o "**\n"
             \o FormatAll(accelerat_papers(all_papers), date_str)
        ELSE "No papers today\n")

\* ------------------------------------------------------------------------
\* Section scan: re.compile(r"(^|\n)##\s*(\d{4}-\d{2}-\d{2}).*?(?=\n##\s|\Z)",
\*                          re.DOTALL).finditer(existing_content)
\* ------------------------------------------------------------------------

RECURSIVE SkipSpaces(_, _)
\* the index after the greedy \s* that starts at index i
SkipSpaces(s, i) ==
    IF i < Len(s) /\ PyChar(s, i) \in Whitespace THEN SkipSpaces(s, i + 1) ELSE i

\* \d{4}-\d{2}-\d{2} matches at index i
DateAt(s, i) == i + 10 <= Len(s) /\ IsDateShape(PySlice(s, i, i + 10))

\* the pattern without its \n alternative: ^## only
HashesAt_StartOnly(s, p) == IF p = 0 /\ PySlice(s, 0, 2) = "##" THEN 0 ELSE -1

\* the index of "##" when (^|\n)## matches at index p, -1 otherwise
HashesAt(s, p) ==
    IF p = 0 /\ PySlice(s, 0, 2) = "##" THEN 0
    ELSE IF PySlice(s, p, p + 3) = "\n##" THEN p + 1
    ELSE -1

\* (^|\n)##\s*(\d{4}-\d{2}-\d{2}) matches at index p
HeaderAt(s, p) ==
    HashesAt(s, p) >= 0 /\ DateAt(s, SkipSpaces(s, HashesAt(s, p) + 2))

\* the start index of group 2 (the date) of a match at index p
DateIndex(s, p) == SkipSpaces(s, HashesAt(s, p) + 2)

\* the lookahead (?=\n##\s|\Z) holds at index e
LookaheadAt(s, e) ==
    \/ e = Len(s)
    \/ PySlice(s, e, e + 3) = "\n##" /\ PySlice(s, e + 3, e + 4) \in Whitespace

\* the least element of a non-empty set of integers
Min(S) == CHOOSE x \in S : \A y \in S : x <= y

RECURSIVE FindIter(_, _, _, _)
\* the matches found from index pos on: starts are the indices where a
\* header matches, stops the indices where the lookahead holds
FindIter(s, pos, starts, stops) ==
    LET cand == {p \in starts : p >= pos}
    IN  IF cand = {} THEN << >>
        ELSE LET start == Min(cand)
                 date_at == DateIndex(s, start)
                 end == Min({e \in stops : e >= date_at + 10})
             IN  << [start |-> start, end |-> end,
                     date |-> PySlice(s, date_at, date_at + 10)] >>
                 \o FindIter(s, end, starts, stops)

\* the indices at which "\n##" or a leading "##" stands
HashIndices(s) == {p \in 0..(Len(s) - 1) : HashesAt(s, p) >= 0}

finditer(s) ==
    LET hashes == HashIndices(s)
    IN  FindIter(s, 0, {p \in hashes : HeaderAt(s, p)},
                 {e \in hashes : LookaheadAt(s, e)} \cup {Len(s)})

\* all_sections: (section_date, section_content, section_start) per match,
\* section_content = m.group(0).lstrip('\n')
all_sections(existing_content) ==
    LET ms == finditer(existing_content)
    IN  [i \in DOMAIN ms |->
            [section_date |-> ms[i].date,
             section_content |-> LStripNL(PySlice(existing_content, ms[i].start, ms[i].end)),
             section_start |-> ms[i].start]]

\* ------------------------------------------------------------------------
\* update_markdown_file: replace, insert before, or append
\* ------------------------------------------------------------------------

\* the first index idx of all_sections with dt == date_str, 0 when none
replace_index(sections, date_str) ==
    LET hits == {i \in DOMAIN sections : sections[i].section_date = date_str}
    IN  IF hits = {} THEN 0 ELSE Min(hits)

\* the replace branch forgets the text after the replaced section
replace_section_DropRest(existing_content, sec, content) ==
    LET start_idx == sec.section_start
        before == RStripNL(PyTo(existing_content, start_idx))
        c1 == IF before # "" /\ ~EndsWith(before, "\n") THEN before \o "\n" ELSE before
    IN  c1 \o "\n" \o content

\* the replace branch: new_content as built for the section (dt, _, start_idx)
replace_section(existing_content, sec, content) ==
    LET start_idx == sec.section_start
        before == RStripNL(PyTo(existing_content, start_idx))
        after_idx == start_idx + Len(sec.section_content)
        after == PyFrom(existing_content, after_idx)
        c1 == IF before # "" /\ ~EndsWith(before, "\n") THEN before \o "\n" ELSE before
        c2 == c1 \o "\n" \o content
        c3 == IF after # "" /\ ~StartsWith(after, "\n") THEN c2 \o "\n" ELSE c2
    IN  c3 \o LStripNL(after)

\* the comparison reversed: dt < date_str
is_later_Reversed(dt, date_str) == StrGreater(date_str, dt)

\* dt > date_str in the scan for the insertion point
is_later(dt, date_str) == StrGreater(dt, date_str)

\* the first index idx of all_sections with dt > date_str, 0 when none
insert_index(sections, date_str) ==
    LET later == {i \in DOMAIN sections : is_later(sections[i].section_date, date_str)}
    IN  IF later = {} THEN 0 ELSE Min(later)

\* the insert branch: new_content for insert_idx
insert_section(existing_content, insert_idx, content) ==
    LET before == RStripNL(PyTo(existing_content, insert_idx))
        after == PyFrom(existing_content, insert_idx)
        c1 == IF before # "" /\ ~EndsWith(before, "\n") THEN before \o "\n" ELSE before
        c2 == c1 \o "\n" \o content
        c3 == IF after # "" /\ ~StartsWith(after, "\n") THEN c2 \o "\n" ELSE c2
    IN  c3 \o LStripNL(after)

\* the append branch
append_section(existing_content, content) == RStrip(existing_content) \o "\n\n" \o content

\* the text update_markdown_file writes to filepath for a non-empty papers
\* list, existing_content being "" when the file does not exist
new_file_content(existing_content, papers, date_str) ==
    LET sections == all_sections(existing_content)
        content == papers_content(papers, date_str)
        ridx == replace_index(sections, date_str)
        iidx == insert_index(sections, date_str)
        new_content ==
            IF ridx # 0 THEN replace_section(existing_content, sections[ridx], content)
            ELSE IF iidx # 0
                 THEN insert_section(existing_content, sections[iidx].section_start, content)
                 ELSE append_section(existing_content, content)
    IN  Strip(new_content) \o "\n"

\* ------------------------------------------------------------------------
\* Weekly files (get_week_range, find_or_create_weekly_file)
\* ------------------------------------------------------------------------

\* the number of days before January 1st of year y (datetime ordinals)
DaysBeforeYear(y) ==
    (y - 1) * 365 + ((y - 1) \div 4) - ((y - 1) \div 100) + ((y - 1) \div 400)

RECURSIVE DaysBeforeMonth(_, _)
DaysBeforeMonth(y, m) ==
    IF m = 1 THEN 0 ELSE DaysBeforeMonth(y, m - 1) + DaysInMonth(y, m - 1)

\* date(y, m, d).toordinal()
ToOrdinal(y, m, d) == DaysBeforeYear(y) + DaysBeforeMonth(y, m) + d

\* date.fromordinal(n), for an ordinal in year y - 1, y or y + 1
FromOrdinal(n, y) ==
    CHOOSE t \in ((y - 1)..(y + 1)) \X (1..12) \X (1..31) :
        /\ t[3] <= DaysInMonth(t[1], t[2])
        /\ ToOrdinal(t[1], t[2], t[3]) = n

\* '%02d' % n
Pad2(n) == IF n < 10 THEN "0" \o ToString(n) ELSE ToString(n)

\* strftime('%Y%m%d') for a year of four digits
Ymd(t) == ToString(t[1]) \o Pad2(t[2]) \o Pad2(t[3])

\* the value returned when a function returns None
None == "None"

get_week_range(date_str) ==
    IF ~StrptimeOk(date_str) THEN None
    ELSE LET y == Num4(PySlice(date_str, 0, 4))
             target_date == ToOrdinal(y, Num2(PySlice(date_str, 5, 7)),
                                      Num2(PySlice(date_str, 8, 10)))
             days_since_monday == (target_date + 6) % 7
             monday == target_date - days_since_monday
             sunday == monday + 6
         IN  Ymd(FromOrdinal(monday, y)) \o "-" \o Ymd(FromOrdinal(sunday, y))

\* the directory the processor is constructed with
docs_daily_path == "docs/daily"

\* the text create_weekly_file writes
create_weekly_file(week_range) == "# " \o week_range \o "\n\n"

\* the path find_or_create_weekly_file returns (None for a bad date)
weekly_filepath(date_str) ==
    IF get_week_range(date_str) = None THEN None
    ELSE docs_daily_path \o "/" \o get_week_range(date_str) \o ".md"

\* the file system after find_or_create_weekly_file(date_str)
find_or_create_weekly_file(fs, date_str) ==
    LET filepath == weekly_filepath(date_str)
    IN  IF filepath = None \/ filepath \in DOMAIN fs THEN fs
        ELSE fs @@ (filepath :> create_weekly_file(get_week_range(date_str)))

\* the file system after update_markdown_file(filepath, papers, date_str)
update_markdown_file(fs, filepath, papers, date_str) ==
    IF Len(papers) = 0 THEN fs
    ELSE LET existing_content == IF filepath \in DOMAIN fs THEN fs[filepath] ELSE ""
         IN  (filepath :> new_file_content(existing_content, papers, date_str)) @@ fs

\* ------------------------------------------------------------------------
\* Listing entries (_extract_paper_info_from_html)
\*
\* An entry is what BeautifulSoup yields for one <dt> and its <dd>:
\*   dd            the <dd> sibling exists
\*   abs_href      href of the first link with '/abs/' in it, None if absent
\*   dt_text       dt_entry.get_text()
\*   pdf_href      href of the first link with '/pdf/' in it, None if absent
\*   title_text    text of the list-title div, None if absent
\*   author_texts  texts of the links of the list-authors div
\*   has_subjects  the list-subjects div exists
\*   subject_hrefs hrefs of the links of the list-subjects div
\*   subjects_text text of the list-subjects div
\*   abstract_text text of the abstract paragraph, None if absent
\* ------------------------------------------------------------------------

\* sub in s
Contains(s, sub) ==
    \E i \in 0..(Len(s) - Len(sub)) : PySlice(s, i, i + Len(sub)) = sub

UpperCase == "ABCDEFGHIJKLMNOPQRSTUVWXYZ"

LowerCase == "abcdefghijklmnopqrstuvwxyz"

\* the lower-case letter of each upper-case letter
LowerTable ==
    [c \in {SubSeq(UpperCase, i, i) : i \in 1..26} |->
        LET i == CHOOSE k \in 1..26 : SubSeq(UpperCase, k, k) = c IN SubSeq(LowerCase, i, i)]

\* c.lower() for one character
LowerChar(c) == IF c \in DOMAIN LowerTable THEN LowerTable[c] ELSE c

RECURSIVE LowerFrom(_, _)
LowerFrom(s, i) == IF i >= Len(s) THEN "" ELSE LowerChar(PyChar(s, i)) \o LowerFrom(s, i + 1)

\* s.lower()
Lower(s) == LowerFrom(s, 0)

\* s.split('/')[-1]
LastSegment(s) == LET parts == Split(s, "/") IN parts[Len(parts)]

\* the index of the first character from index i on that is in stop, len(s) if none
RECURSIVE ScanTo(_, _, _)
ScanTo(s, i, stop) ==
    IF i >= Len(s) \/ PyChar(s, i) \in stop THEN i ELSE ScanTo(s, i + 1, stop)

RECURSIVE IndexOf(_, _, _)
\* s.find(sub, i): the first index >= i where sub stands, -1 if none
IndexOf(s, sub, i) ==
    IF i + Len(sub) > Len(s) THEN -1
    ELSE IF PySlice(s, i, i + Len(sub)) = sub THEN i
    ELSE IndexOf(s, sub, i + 1)

RECURSIVE QueryCodeFrom(_, _)
\* re.search(r'query=([^&]+)', href).group(1) searching from index i on,
\* None when there is no match
QueryCodeFrom(href, i) ==
    LET at == IndexOf(href, "query=", i)
    IN  IF at < 0 THEN None
        ELSE LET from == at + 6
                 to == ScanTo(href, from, {"&"})
             IN  IF to > from THEN PySlice(href, from, to)
                 ELSE QueryCodeFrom(href, at + 1)

QueryCode(href) == QueryCodeFrom(href, 0)

RECURSIVE ParenGroups(_, _)
\* re.findall(r'\(([^)]+)\)', text), scanning from index i
ParenGroups(text, i) ==
    LET open == IndexOf(text, "(", i)
    IN  IF open < 0 THEN << >>
        ELSE LET close == ScanTo(text, open + 1, {")"})
             IN  IF close >= Len(text) THEN << >>
                 ELSE IF close = open + 1 THEN ParenGroups(text, open + 1)
                 ELSE << PySlice(text, open + 1, close) >> \o ParenGroups(text, close + 1)

\* the categories list of an entry
entry_categories(entry) ==
    IF ~entry.has_subjects THEN << >>
    ELSE LET IsSubject(h) == Contains(h, "searchtype=subject") /\ QueryCode(h) # None
             links == SelectSeq(entry.subject_hrefs, IsSubject)
             from_links == [i \in DOMAIN links |-> QueryCode(links[i])]
             IsCs(m) == StartsWith(m, "cs.")
         IN  IF Len(from_links) > 0 THEN from_links
             ELSE SelectSeq(ParenGroups(entry.subjects_text, 0), IsCs)

\* re.match(r'(\d{2})(\d{2})\.(\d+)', arxiv_id) succeeds
IdHasDate(arxiv_id) ==
    /\ Len(arxiv_id) >= 6
    /\ \A i \in 0..3 : PyChar(arxiv_id, i) \in Digits
    /\ PyChar(arxiv_id, 4) = "."
    /\ PyChar(arxiv_id, 5) \in Digits

\* _extract_paper_info_from_html returns None: no <dd>, or no '/abs/' link
extract_returns_none(entry) == ~entry.dd \/ entry.abs_href = None

\* the paper_info dict _extract_paper_info_from_html returns otherwise
_extract_paper_info_from_html(entry) ==
         LET href == entry.abs_href
             arxiv_id == LastSegment(href)
             paper_id == IF StartsWith(href, "/") THEN "http://arxiv.org/abs/" \o arxiv_id
                         ELSE IF StartsWith(href, "http") THEN href
                         ELSE "http://arxiv.org/abs/" \o arxiv_id
             replaced == Contains(entry.dt_text, "(replaced)")
             pdf_link == IF entry.pdf_href = None THEN "N/A"
                         ELSE IF StartsWith(entry.pdf_href, "/")
                              THEN "https://arxiv.org" \o entry.pdf_href
                              ELSE entry.pdf_href
             title == IF entry.title_text = None THEN "N/A"
                      ELSE IF StartsWith(entry.title_text, "Title:")
                           THEN Strip(PyFrom(entry.title_text, 6))
                           ELSE entry.title_text
             summary == IF entry.abstract_text = None THEN "N/A" ELSE entry.abstract_text
             published == IF arxiv_id # "" /\ IdHasDate(arxiv_id)
                          THEN "20" \o PySlice(arxiv_id, 0, 2) \o "-" \o PySlice(arxiv_id, 2, 4)
                               \o "-01T00:00:00Z"
                          ELSE "N/A"
         IN  [id |-> paper_id, title |-> title, authors |-> entry.author_texts,
              summary |-> summary, published |-> published, updated |-> published,
              pdf_link |-> pdf_link, categories |-> entry_categories(entry),
              author_count |-> Len(entry.author_texts), replaced |-> replaced]

\* ------------------------------------------------------------------------
\* fetch_arxiv_papers: revision filter, category / keyword filter, dedup
\* ------------------------------------------------------------------------

\* cat in a list
InList(cat, list) == \E i \in DOMAIN list : list[i] = cat

\* the filter sets both match flags from the first keyword alone
with_flags_SameFlag(paper_info, categories) ==
    LET paper_categories == Get(paper_info, "categories", << >>)
        summary_lower == Lower(Get(paper_info, "summary", ""))
    IN  IF InList("cs.DC", paper_categories) THEN paper_info
        ELSE IF \E i \in DOMAIN categories : InList(categories[i], paper_categories)
             THEN IF \E i \in DOMAIN paper_categories :
                         paper_categories[i] \in {"cs.AI", "cs.LG"}
                  THEN [rl_match |-> Contains(summary_lower, "reinforcement learning"),
                        accelerat_match |-> Contains(summary_lower, "reinforcement learning")]
                       @@ paper_info
                  ELSE paper_info
             ELSE paper_info

\* paper_info after the filter has set its match flags
with_flags(paper_info, categories) ==
    LET paper_categories == Get(paper_info, "categories", << >>)
        summary_lower == Lower(Get(paper_info, "summary", ""))
    IN  IF InList("cs.DC", paper_categories) THEN paper_info
        ELSE IF \E i \in DOMAIN categories : InList(categories[i], paper_categories)
             THEN IF \E i \in DOMAIN paper_categories :
                         paper_categories[i] \in {"cs.AI", "cs.LG"}
                  THEN [rl_match |-> Contains(summary_lower, "reinforcement learning"),
                        accelerat_match |-> Contains(summary_lower, "accelerat")]
                       @@ paper_info
                  ELSE paper_info
             ELSE paper_info

\* the keyword test is applied to every record, cs.DC included
should_add_KeywordOnly(paper_info, categories) ==
    LET summary_lower == Lower(Get(paper_info, "summary", ""))
    IN  Contains(summary_lower, "reinforcement learning") \/ Contains(summary_lower, "accelerat")

\* should_add
should_add(paper_info, categories) ==
    LET paper_categories == Get(paper_info, "categories", << >>)
        flagged == with_flags(paper_info, categories)
    IN  IF InList("cs.DC", paper_categories) THEN TRUE
        ELSE IF \E i \in DOMAIN categories : InList(categories[i], paper_categories)
             THEN IF \E i \in DOMAIN paper_categories :
                         paper_categories[i] \in {"cs.AI", "cs.LG"}
                  THEN flagged.rl_match \/ flagged.accelerat_match
                  ELSE TRUE
             ELSE FALSE

\* no entry counts as a revision
is_revision_Never(paper_info) == FALSE

\* paper_info.get('replaced', False)
is_revision(paper_info) == Get(paper_info, "replaced", FALSE)

\* seen_papers after a paper was added with paper_id: never updated
seen_add_Never(seen_papers, paper_id) == seen_papers

\* seen_papers.add(paper_id)
seen_add(seen_papers, paper_id) == seen_papers \cup {paper_id}

RECURSIVE fetch_loop(_, _, _, _, _)
\* the loop over paper_entries from entry i on
fetch_loop(paper_entries, i, categories, all_papers, seen_papers) ==
    IF i > Len(paper_entries) THEN all_papers
    ELSE IF extract_returns_none(paper_entries[i])
    THEN fetch_loop(paper_entries, i + 1, categories, all_papers, seen_papers)
    ELSE LET paper_info == _extract_paper_info_from_html(paper_entries[i])
         IN  IF Get(paper_info, "id", "") \in seen_papers
             THEN fetch_loop(paper_entries, i + 1, categories, all_papers, seen_papers)
             ELSE IF is_revision(paper_info)
             THEN fetch_loop(paper_entries, i + 1, categories, all_papers, seen_papers)
             ELSE IF should_add(paper_info, categories)
             THEN fetch_loop(paper_entries, i + 1, categories,
                             Append(all_papers, with_flags(paper_info, categories)),
                             seen_add(seen_papers, Get(paper_info, "id", "")))
             ELSE fetch_loop(paper_entries, i + 1, categories, all_papers, seen_papers)

\* the list fetch_arxiv_papers returns.  page.ok: the listing was obtained
\* and parsed (no exception); page.entries: its <dt> entries in document
\* order
fetch_arxiv_papers(categories, page) ==
    IF ~page.ok THEN << >>
    ELSE fetch_loop(page.entries, 1, categories, << >>, {})

\* ------------------------------------------------------------------------
\* The processed-date ledger (arxiv_date.txt)
\* ------------------------------------------------------------------------

\* date_str.replace('-', '')
without_dashes(date_str) == MapChars(date_str, "-" :> "", 0)

\* already_processed(date_str): lines are the lines of the ledger file
already_processed(lines, date_str) ==
    \E i \in DOMAIN lines : lines[i] # "" /\ lines[i] = without_dashes(date_str)

\* the lines of the ledger file after append_to_processed(date_str)
append_to_processed(lines, date_str) == Append(lines, without_dashes(date_str))

\* ------------------------------------------------------------------------
\* process_single_paper
\* ------------------------------------------------------------------------

\* the paper dict process_single_paper returns.  downloaded: download_pdf
\* returned a path (it returns None on any exception); api: the tuple
\* call_api_for_tags_institution_interest returned (empty fields when the
\* service call raised or the response could not be parsed)
process_single_paper(paper, downloaded, api) ==
    LET pdf_link == Get(paper, "pdf_link", "")
    IN  IF ~IsCsDC(paper)
        THEN [simple_only |-> TRUE, is_interested |-> TRUE] @@ paper
        ELSE IF pdf_link = "" \/ pdf_link = "N/A"
        THEN [is_interested |-> TRUE] @@ paper
        ELSE IF ~downloaded
        THEN [is_interested |-> TRUE] @@ paper
        ELSE [tag1 |-> api.tag1, tag2 |-> api.tag2, tag3 |-> Join(", ", api.tag3_list),
              institution |-> api.institution, is_interested |-> TRUE,
              llm_summary |-> api.llm_summary, simple_only |-> FALSE] @@ paper

\* pdf_filename: the name of the temporary file of a record
pdf_filename(paper) == LastSegment(Get(paper, "id", "")) \o ".pdf"

\* the record reaches the download: it is cs.DC and has a PDF link
downloads_pdf(paper) ==
    IsCsDC(paper) /\ Get(paper, "pdf_link", "") \notin {"", "N/A"}

\* the result list keeps only the fully enriched and the simplified records
collect_OnlyMarked(processed_papers, processed_paper) ==
    IF "simple_only" \in DOMAIN processed_paper
    THEN Append(processed_papers, processed_paper)
    ELSE processed_papers

\* processed_papers.append(future.result())
collect(processed_papers, processed_paper) == Append(processed_papers, processed_paper)

\* papers[:max_papers] when max_papers is set (0 stands for None) and exceeded
limit_papers(papers, max_papers) ==
    IF max_papers # 0 /\ Len(papers) > max_papers THEN SubSeq(papers, 1, max_papers)
    ELSE papers

\* ------------------------------------------------------------------------
\* State
\* ------------------------------------------------------------------------

VARIABLES
    files,      \* the markdown files on disk: path -> text
    call,       \* the last direct call of update_markdown_file: its arguments
                \* and whether it wrote the file
    fetch_in,   \* the arguments of a direct call of fetch_arxiv_papers
    fetch_out,  \* whether the call has returned, and the list it returned
    ledger,     \* the lines of arxiv_date.txt
    pc,         \* where process_papers_by_date stands: "idle", "pool", "ledger"
    run,        \* the date and pool width of the current or last run, and how
                \* it ended: "skipped", "fetch_failed", "no_papers", "done"
    papers,     \* the records submitted to the pool (shared with the workers)
    tasks,      \* per submitted record: "pending", "running" or "done"
    finished,   \* the finished futures as_completed has not yielded yet
    processed_papers    \* the collected result list

mdVars == << files, call >>

fetchVars == << fetch_in, fetch_out >>

runVars == << ledger, pc, run, papers, tasks, finished, processed_papers >>

vars == << files, call, fetch_in, fetch_out, ledger, pc, run, papers, tasks, finished,
           processed_papers >>

\* ------------------------------------------------------------------------
\* The Document Assembler called directly on one weekly file
\* ------------------------------------------------------------------------

\* the longest record list handed to one call
MaxPapers == 2

\* an enriched cs.DC record and a keyword-matched cs.AI record, as
\* process_single_paper returns them
MdRecords ==
    { [id |-> "http://arxiv.org/abs/2501.00001", title |-> "Ring", authors |-> << "A. Li", "B. Roy" >>,
       summary |-> "N/A", pdf_link |-> "https://arxiv.org/pdf/2501.00001",
       categories |-> << "cs.DC" >>, replaced |-> FALSE,
       tag1 |-> "mlsys", tag2 |-> "llm training", tag3 |-> "zero, offload",
       institution |-> "MIT", is_interested |-> TRUE,
       llm_summary |-> "Uses {k} rings.", simple_only |-> FALSE],
      [id |-> "http://arxiv.org/abs/2501.00002", title |-> "Bandit", authors |-> << "C. Wu" >>,
       summary |-> "Reinforcement learning.", pdf_link |-> "N/A",
       categories |-> << "cs.AI" >>, replaced |-> FALSE,
       rl_match |-> TRUE, accelerat_match |-> FALSE,
       simple_only |-> TRUE, is_interested |-> TRUE] }

\* the lists of at most n distinct elements of S
ListsOf(S, n) ==
    UNION { { q \in [1..k -> S] : \A i, j \in 1..k : i # j => q[i] # q[j] } : k \in 0..n }

MdPaperLists == ListsOf(MdRecords, MaxPapers)

\* dates of one week
MdDates == { "2025-01-06", "2025-01-07", "2025-01-08" }

MdPath == weekly_filepath("2025-01-06")

NoFetch == [categories |-> << >>, page |-> [ok |-> FALSE, entries |-> << >>]]

NotReturned == [returned |-> FALSE, papers |-> << >>]

NoRun == [target_date |-> "", max_workers |-> 0, result |-> "none"]

\* no run of process_papers_by_date has started
RunIdle ==
    /\ ledger = << >>
    /\ pc = "idle"
    /\ run = NoRun
    /\ papers = << >>
    /\ tasks = << >>
    /\ finished = << >>
    /\ processed_papers = << >>

NoCall == [papers |-> << >>, date_str |-> "", wrote |-> FALSE, branch |-> "none"]

\* the branch a call takes, as its progress message reports it
branch_taken(existing_content, records, date_str) ==
    IF Len(records) = 0 THEN "none"
    ELSE IF replace_index(all_sections(existing_content), date_str) # 0 THEN "replace"
    ELSE IF insert_index(all_sections(existing_content), date_str) # 0 THEN "insert"
    ELSE "append"

\* the freshly created title-only weekly file
MdInit ==
    /\ files = find_or_create_weekly_file(<< >>, "2025-01-06")
    /\ call = NoCall
    /\ fetch_in = NoFetch
    /\ fetch_out = NotReturned
    /\ RunIdle

\* update_markdown_file(MdPath, records, date_str)
MdUpdate(records, date_str) ==
    /\ files' = update_markdown_file(files, MdPath, records, date_str)
    /\ call' = [papers |-> records, date_str |-> date_str, wrote |-> Len(records) > 0,
                branch |-> branch_taken(files[MdPath], records, date_str)]
    /\ UNCHANGED << fetchVars, runVars >>

MdNext == \E records \in MdPaperLists, date_str \in MdDates : MdUpdate(records, date_str)

SpecMd == MdInit /\ [][MdNext]_vars

\* ------------------------------------------------------------------------
\* Reading a document back: the header lines "## YYYY-MM-DD" and the
\* sections they delimit (a scan of the lines, independent of finditer)
\* ------------------------------------------------------------------------

\* a line "## YYYY-MM-DD..." starts at index p
HeaderLineAt(content, p) ==
    /\ p = 0 \/ PyChar(content, p - 1) = "\n"
    /\ PySlice(content, p, p + 3) = "## "
    /\ DateAt(content, p + 3)

HeaderLinePositions(content) ==
    {p \in 0..(Len(content) - 1) : PyChar(content, p) = "#" /\ HeaderLineAt(content, p)}

RECURSIVE SortedSeq(_)
\* the elements of a finite set of integers in ascending order
SortedSeq(S) == IF S = {} THEN << >> ELSE << Min(S) >> \o SortedSeq(S \ {Min(S)})

\* the dates of the header lines, in document order
HeaderDates(content) ==
    LET ps == SortedSeq(HeaderLinePositions(content))
    IN  [i \in DOMAIN ps |-> PySlice(content, ps[i] + 3, ps[i] + 13)]

\* the number of header lines for date d
HeaderCount(content, d) ==
    Cardinality({p \in HeaderLinePositions(content) : PySlice(content, p + 3, p + 13) = d})

\* the section of date d: from its header line up to, and excluding, the
\* line break before the next header line, or up to the end of the text
DateSection(content, d) ==
    LET ps == HeaderLinePositions(content)
        mine == {p \in ps : PySlice(content, p + 3, p + 13) = d}
    IN  IF mine = {} THEN ""
        ELSE LET start == Min(mine)
                 later == {p \in ps : p > start}
             IN  IF later = {} THEN PyFrom(content, start)
                 ELSE PySlice(content, start, Min(later) - 1)

TheDoc == files[MdPath]

\* ------------------------------------------------------------------------
\* The classification stage called directly on bounded listings
\* ------------------------------------------------------------------------

\* the longest listing
MaxEntries == 3

\* a listing entry as arXiv's "new" page shows it
Entry(number, marker, title, subjects, abstract) ==
    [dd |-> TRUE,
     abs_href |-> "/abs/" \o number,
     dt_text |-> "arXiv:" \o number \o marker \o " [pdf, html, other]",
     pdf_href |-> "/pdf/" \o number,
     title_text |-> "Title:" \o title,
     author_texts |-> << "A. Li" >>,
     has_subjects |-> TRUE,
     subject_hrefs |-> << >>,
     subjects_text |-> "Subjects: " \o subjects,
     abstract_text |-> abstract]

\* entries that share identifiers across groups, keyword matches and
\* revision markers
FetchEntries ==
    { Entry("2501.00001", "", "T1",
            "Distributed Computing (cs.DC); Artificial Intelligence (cs.AI)", "We build rings."),
      Entry("2501.00001", "", "T2", "Artificial Intelligence (cs.AI)",
            "Deep Reinforcement Learning helps."),
      Entry("2501.00002", "", "T3", "Machine Learning (cs.LG); Artificial Intelligence (cs.AI)",
            "We accelerate training."),
      Entry("2501.00002", "", "T4", "Artificial Intelligence (cs.AI)", "We plan."),
      Entry("2501.00002", " (replaced)", "T5", "Distributed Computing (cs.DC)", "We shard."),
      Entry("2501.00003", "", "T7", "Machine Learning (cs.LG)",
            "Reinforcement learning to accelerate."),
      Entry("2501.00003", "", "T8", "Networking and Internet Architecture (cs.NI)",
            "We route.") }

FetchListings == UNION { [1..k -> FetchEntries] : k \in 0..MaxEntries }

\* the default allowlist of the signature, the one main() passes, and one
\* a caller edits in (main's comment invites changing the list)
FetchAllowlists ==
    { << "cs.DC", "cs.AI" >>, << "cs.DC", "cs.AI", "cs.LG" >>, << "cs.DC", "cs.AI", "cs.NI" >> }

\* the date the returned list is rendered for
FetchDate == "2025-01-06"

\* the weekly file of that date
FetchPath == weekly_filepath(FetchDate)

\* the file system after find_or_create_weekly_file created that file
FetchFresh == find_or_create_weekly_file(<< >>, FetchDate)

\* the arguments are drawn: an allowlist and a listing
FetchInit ==
    /\ \E categories \in FetchAllowlists, entries \in FetchListings :
          fetch_in = [categories |-> categories, page |-> [ok |-> TRUE, entries |-> entries]]
    /\ fetch_out = NotReturned
    /\ files = << >>
    /\ call = NoCall
    /\ RunIdle

\* fetch_arxiv_papers(categories, html_content = the listing)
FetchCall ==
    /\ ~fetch_out.returned
    /\ fetch_out' = [returned |-> TRUE,
                     papers |-> fetch_arxiv_papers(fetch_in.categories, fetch_in.page)]
    /\ UNCHANGED << fetch_in, mdVars, runVars >>

\* the returned list is handed to update_markdown_file, as
\* process_papers_by_date hands it over, for a freshly created weekly file
FetchRender ==
    /\ fetch_out.returned
    /\ files = << >>
    /\ fetch_out.papers # << >>
    /\ files' = update_markdown_file(FetchFresh, FetchPath, fetch_out.papers, FetchDate)
    /\ call' = [papers |-> fetch_out.papers, date_str |-> FetchDate, wrote |-> TRUE,
                branch |-> branch_taken(FetchFresh[FetchPath], fetch_out.papers, FetchDate)]
    /\ UNCHANGED << fetchVars, runVars >>

FetchNext == FetchCall \/ FetchRender

SpecFetch == FetchInit /\ [][FetchNext]_vars

\* ------------------------------------------------------------------------
\* C10
\* ------------------------------------------------------------------------

\* the parsed records of the entries of the last listing, in listing order
ParsedListing ==
    [i \in DOMAIN fetch_in.page.entries |->
        _extract_paper_info_from_html(fetch_in.page.entries[i])]

\* the indices of the non-revision entries with identifier id
NonRevisionWith(id) ==
    {i \in DOMAIN ParsedListing : ParsedListing[i].id = id /\ ~ParsedListing[i].replaced}

\* the identifiers several non-revision entries share
SharedIds ==
    {ParsedListing[i].id : i \in {k \in DOMAIN ParsedListing :
                                    Cardinality(NonRevisionWith(ParsedListing[k].id)) >= 2}}

\* the retained records with identifier id
RetainedWith(id) == {i \in DOMAIN fetch_out.papers : fetch_out.papers[i].id = id}

PassingWith(id) ==
    {i \in NonRevisionWith(id) : should_add(ParsedListing[i], fetch_in.categories)}

RevisionEntries ==
    {k \in DOMAIN fetch_in.page.entries :
        Contains(fetch_in.page.entries[k].dt_text, "(replaced)")}

\* the titles of the retained records
RetainedTitles == {fetch_out.papers[i].title : i \in DOMAIN fetch_out.papers}

\* C11: no entry that carries the revision marker is in the returned
\* sequence, whatever its categories and summary, and the first non-revision
\* entry of an identifier that passes the filter is retained also when a
\* revision entry with that identifier stands before it.
C11_RevisionsDropped ==
    fetch_out.returned =>
        LET parsed == ParsedListing
            passing == {i \in DOMAIN parsed \ RevisionEntries :
                           should_add(parsed[i], fetch_in.categories)}
            first(id) == Min({i \in passing : parsed[i].id = id})
        IN  /\ \A k \in RevisionEntries : parsed[k].title \notin RetainedTitles
            /\ \A j \in passing :
                  j = first(parsed[j].id) => parsed[j].title \in RetainedTitles

\* a cs.DC revision entry stands before a non-revision entry with the same
\* identifier, and the later one is retained
C11_Witness ==
    /\ fetch_out.returned
    /\ \E k \in RevisionEntries, j \in DOMAIN ParsedListing :
          /\ k < j
          /\ j \notin RevisionEntries
          /\ InList("cs.DC", ParsedListing[k].categories)
          /\ ParsedListing[j].id = ParsedListing[k].id
          /\ ParsedListing[j].title \in RetainedTitles
          /\ ParsedListing[k].title \notin RetainedTitles

\* ------------------------------------------------------------------------
\* Reading the three groups of a rendered section back from its text
\* ------------------------------------------------------------------------

PrimaryHeader == "**cs.DC total: "

RlHeader == "**cs.AI/cs.LG contains \"reinforcement learning\" total: "

AcceleratHeader == "**cs.AI/cs.LG contains \"accelerate\" total: "

\* the section written for the rendered list, "" before it is written
FetchSection ==
    IF FetchPath \in DOMAIN files THEN DateSection(files[FetchPath], FetchDate) ELSE ""

\* the first index at which sub stands in s, -1 if it stands nowhere
FirstAt(s, sub) ==
    LET at == {i \in 0..(Len(s) - Len(sub)) : PySlice(s, i, i + Len(sub)) = sub}
    IN  IF at = {} THEN -1 ELSE Min(at)

\* the text of a section from the group header `header` up to the group
\* header `next` (to the end of the section when next is "")
GroupText(section, header, next) ==
    LET from == FirstAt(section, header)
        to == IF next = "" THEN Len(section) ELSE FirstAt(section, next)
    IN  IF from < 0 \/ to < from THEN "" ELSE PySlice(section, from, to)

\* the total a group header announces, as text
GroupTotal(group, header) ==
    PySlice(group, Len(header), ScanTo(group, Len(header), {"*"}))

\* an entry with this title stands in the group, in the detailed or in the
\* simplified form
Listed(group, title) ==
    \/ Contains(group, "] " \o title \o "**\n")
    \/ Contains(group, "] " \o title \o " [link](")

\* the number of entries of the group: lines that start an entry
EntryLines(group) ==
    Cardinality({p \in 1..(Len(group) - 3) : PySlice(group, p - 1, p + 3) = "\n- [" \/
                                              PySlice(group, p - 1, p + 4) = "\n- **"})

\* ------------------------------------------------------------------------
\* C12
\* ------------------------------------------------------------------------

\* C12: every non-revision entry with cs.DC among its categories that is
\* the first non-revision entry of its identifier is retained, whatever its
\* summary and other categories and whatever the allowlist, and the primary
\* group of the rendered section lists exactly the retained records with
\* cs.DC, its header announcing their number.
C12_PrimaryAlwaysRetained ==
    /\ fetch_out.returned =>
          LET parsed == ParsedListing
              kept == DOMAIN parsed \ RevisionEntries
          IN  \A j \in kept :
                  (/\ InList("cs.DC", parsed[j].categories)
                   /\ \A k \in kept : k < j => parsed[k].id # parsed[j].id)
                      => parsed[j].title \in RetainedTitles
    /\ call.wrote =>
          LET primary == GroupText(FetchSection, PrimaryHeader, RlHeader)
              retained == fetch_out.papers
              csdc == {i \in DOMAIN retained : InList("cs.DC", retained[i].categories)}
          IN  /\ GroupTotal(primary, PrimaryHeader) = ToString(Cardinality(csdc))
              /\ EntryLines(primary) = Cardinality(csdc)
              /\ \A i \in DOMAIN retained : Listed(primary, retained[i].title) <=> i \in csdc

\* a cs.DC record that is also cs.AI and has no keyword is retained under
\* the default allowlist, next to a keyword record, and rendered
C12_Witness ==
    /\ call.wrote
    /\ Len(fetch_in.categories) = 2
    /\ \E i, j \in DOMAIN fetch_out.papers :
          /\ InList("cs.DC", fetch_out.papers[i].categories)
          /\ InList("cs.AI", fetch_out.papers[i].categories)
          /\ ~Contains(Lower(fetch_out.papers[i].summary), "accelerat")
          /\ ~Contains(Lower(fetch_out.papers[i].summary), "reinforcement learning")
          /\ ~InList("cs.DC", fetch_out.papers[j].categories)
          /\ Listed(GroupText(FetchSection, PrimaryHeader, RlHeader), fetch_out.papers[i].title)

\* ------------------------------------------------------------------------
\* C13
\* ------------------------------------------------------------------------

\* a keyword stands in the lowercased summary
HasKeyword(summary, keyword) == Contains(Lower(summary), keyword)

C18_RetainedAreRendered ==
    call.wrote =>
        LET section == FetchSection
            primary == GroupText(section, PrimaryHeader, RlHeader)
            rl_group == GroupText(section, RlHeader, AcceleratHeader)
            accelerat_group == GroupText(section, AcceleratHeader, "")
        IN  \A i \in DOMAIN call.papers :
                \/ Listed(primary, call.papers[i].title)
                \/ Listed(rl_group, call.papers[i].title)
                \/ Listed(accelerat_group, call.papers[i].title)

\* ------------------------------------------------------------------------
\* C1
\* ------------------------------------------------------------------------

\* a step that repeats the previous writing call: same records, same date
SameCallAgain ==
    /\ call.wrote /\ call'.wrote
    /\ call'.papers = call.papers
    /\ call'.date_str = call.date_str

\* C1: calling update_markdown_file a second time with the same non-empty
\* record list and the same date leaves the section of that date
\* byte-identical to what the first call left.
C1_Idempotent ==
    [][SameCallAgain =>
          DateSection(files'[MdPath], call.date_str) = DateSection(TheDoc, call.date_str)]_vars

\* ------------------------------------------------------------------------
\* C2
\* ------------------------------------------------------------------------

\* k line breaks
NLs(k) == IF k = 0 THEN "" ELSE IF k = 1 THEN "\n" ELSE IF k = 2 THEN "\n\n" ELSE "\n\n\n"

\* new is: the text of old before the section of d, the rendered section,
\* the text of old from the next header line on; only the number of line
\* breaks at the two joints is left open
ReplacedInPlace(old, new, records, d) ==
    LET ps == HeaderLinePositions(old)
        start == Min({p \in ps : PySlice(old, p + 3, p + 13) = d})
        later == {p \in ps : p > start}
        head == RStripNL(PyTo(old, start))
        body == Strip(papers_content(records, d))
        rest == IF later = {} THEN "" ELSE Strip(PyFrom(old, Min(later)))
    IN  \E a, b \in 0..3 :
            new = head \o NLs(a) \o body \o NLs(b) \o rest
                  \o (IF rest = "" THEN "" ELSE "\n")

\* C2: when the document already has a section for the target date, the
\* result is the text before that section, the newly rendered section, and
\* the text from the next section marker on: nothing of the old section
\* survives.
C2_ReplaceInPlace ==
    [][(call'.wrote /\ HeaderCount(TheDoc, call'.date_str) > 0) =>
          ReplacedInPlace(TheDoc, files'[MdPath], call'.papers, call'.date_str)]_vars

\* ------------------------------------------------------------------------
\* C3
\* ------------------------------------------------------------------------

\* C3: after any sequence of calls on a document that started as the
\* title-only file, no date has more than one header line.
C3_OneSectionPerDate ==
    LET ds == HeaderDates(TheDoc)
    IN  \A i, j \in DOMAIN ds : i # j => ds[i] # ds[j]

\* a call replaced the section of its date in a document holding all dates
C3_Witness ==
    /\ call.branch = "replace"
    /\ \A d \in MdDates : HeaderCount(TheDoc, d) = 1

\* ------------------------------------------------------------------------
\* C4
\* ------------------------------------------------------------------------

\* C4: the header lines stand in strictly ascending date order.
C4_Ascending ==
    LET ds == HeaderDates(TheDoc)
    IN  \A i, j \in DOMAIN ds : i < j => StrGreater(ds[j], ds[i])

\* the middle date was inserted between an earlier and a later section
C4_Witness ==
    /\ call.branch = "insert"
    /\ call.date_str = "2025-01-07"
    /\ HeaderDates(TheDoc) = << "2025-01-06", "2025-01-07", "2025-01-08" >>

\* ------------------------------------------------------------------------
\* C5
\* ------------------------------------------------------------------------

\* exactly one empty line stands before the header line at index p
OneBlankLineBefore(content, p) ==
    /\ p >= 3
    /\ PySlice(content, p - 2, p) = "\n\n"
    /\ PyChar(content, p - 3) # "\n"

\* C5: after a call that writes, adjacent sections are separated by exactly
\* one blank line and the document ends with exactly one line break.
C5_Separated ==
    call.wrote =>
        /\ \A p \in HeaderLinePositions(TheDoc) :
              p # Min(HeaderLinePositions(TheDoc)) => OneBlankLineBefore(TheDoc, p)
        /\ EndsWith(TheDoc, "\n")
        /\ ~EndsWith(TheDoc, "\n\n")

\* ------------------------------------------------------------------------
\* C14
\* ------------------------------------------------------------------------

\* the text before the first header line (the title header), and the
\* sections of the dates, each without the line breaks that end it
Frame(content, dates) ==
    LET ps == HeaderLinePositions(content)
        section(d) ==
            LET mine == {p \in ps : PySlice(content, p + 3, p + 13) = d}
                later == {p \in ps : p > Min(mine)}
            IN  IF mine = {} THEN ""
                ELSE IF later = {} THEN RStripNL(PyFrom(content, Min(mine)))
                ELSE RStripNL(PySlice(content, Min(mine), Min(later)))
    IN  [title |-> RStripNL(IF ps = {} THEN content ELSE PyTo(content, Min(ps))),
         sections |-> [d \in dates |-> section(d)]]

\* C14: a call for date D that writes leaves the title header and the
\* header and entry text of the section of every other date as they were,
\* and removes no such section; only the blank lines that end them may
\* change.
C14_Frame ==
    [][call'.wrote =>
          Frame(TheDoc', MdDates \ {call'.date_str}) = Frame(TheDoc, MdDates \ {call'.date_str})]_vars

\* the section of the middle date was replaced between two other sections
C14_Witness ==
    /\ call.wrote
    /\ call.branch = "replace"
    /\ call.date_str = "2025-01-07"
    /\ HeaderDates(TheDoc) = << "2025-01-06", "2025-01-07", "2025-01-08" >>
    /\ Len(DateSection(TheDoc, "2025-01-06")) > 100
    /\ Len(DateSection(TheDoc, "2025-01-08")) > 100

\* ------------------------------------------------------------------------
\* process_papers_by_date: one run at a time, the records enriched by a
\* ThreadPoolExecutor of max_workers threads
\* ------------------------------------------------------------------------

\* the widest pool
MaxWorkers == 2

\* a date and a date strptime rejects
RunDates == { "2025-01-06", "2025-02-30" }

\* the allowlist main() passes
RunCategories == << "cs.DC", "cs.AI", "cs.LG" >>

\* max_papers: None (0), or a limit
RunLimits == { 0, 2 }

\* a page that could not be fetched, a page with two cs.DC entries and a
\* keyword match, a page of which nothing is retained, a page that links
\* one abstract relatively and one absolutely
RunPages ==
    { [ok |-> FALSE, entries |-> << >>],
      [ok |-> TRUE, entries |->
          << Entry("2501.00001", "", "T1", "Distributed Computing (cs.DC)", "We build rings."),
             Entry("2501.00003", "", "T6", "Distributed Computing (cs.DC)", "We shard."),
             Entry("2501.00002", "", "T2", "Artificial Intelligence (cs.AI)",
                   "Deep Reinforcement Learning helps.") >>],
      [ok |-> TRUE, entries |->
          << Entry("2501.00002", "", "T4", "Artificial Intelligence (cs.AI)", "We plan.") >>],
      [ok |-> TRUE, entries |->
          << Entry("2501.00001", "", "T1", "Distributed Computing (cs.DC)", "We build rings."),
             [Entry("2501.00001", "", "T9", "Distributed Computing (cs.DC)", "We build trees.")
                 EXCEPT !.abs_href = "https://arxiv.org/abs/2501.00001"] >>] }

\* what the summarization service call yields: parsed fields, or the empty
\* fields of a failed call
ApiResults ==
    { [tag1 |-> "mlsys", tag2 |-> "llm training", tag3_list |-> << "zero", "offload" >>,
       institution |-> "MIT", llm_summary |-> "Uses {k} rings."],
      [tag1 |-> "", tag2 |-> "", tag3_list |-> << >>, institution |-> "", llm_summary |-> ""] }

Init ==
    /\ files = << >>
    /\ call = NoCall
    /\ fetch_in = NoFetch
    /\ fetch_out = NotReturned
    /\ RunIdle

\* the locals of a run that has returned
Returned ==
    /\ papers' = << >>
    /\ tasks' = << >>
    /\ finished' = << >>
    /\ processed_papers' = << >>
    /\ pc' = "idle"

\* the date is in the ledger: the run returns at once
AlreadyProcessed(target_date) ==
    /\ pc = "idle"
    /\ already_processed(ledger, target_date)
    /\ run' = [target_date |-> target_date, max_workers |-> 0, result |-> "skipped"]
    /\ Returned
    /\ UNCHANGED << files, ledger, call, fetchVars >>

\* fetch_arxiv_papers returned an empty list: the date is recorded, the run returns
NoPapers(target_date, page) ==
    /\ pc = "idle"
    /\ ~already_processed(ledger, target_date)
    /\ fetch_arxiv_papers(RunCategories, page) = << >>
    /\ ledger' = append_to_processed(ledger, target_date)
    /\ run' = [target_date |-> target_date, max_workers |-> 0,
               result |-> IF page.ok THEN "no_papers" ELSE "fetch_failed"]
    /\ Returned
    /\ UNCHANGED << files, call, fetchVars >>

\* the retained records are limited and submitted to the pool
Submit(target_date, max_workers, max_papers, page) ==
    /\ pc = "idle"
    /\ ~already_processed(ledger, target_date)
    /\ fetch_arxiv_papers(RunCategories, page) # << >>
    /\ papers' = limit_papers(fetch_arxiv_papers(RunCategories, page), max_papers)
    /\ tasks' = [i \in DOMAIN papers' |-> "pending"]
    /\ finished' = << >>
    /\ processed_papers' = << >>
    /\ run' = [target_date |-> target_date, max_workers |-> max_workers, result |-> "running"]
    /\ pc' = "pool"
    /\ UNCHANGED << files, ledger, call, fetchVars >>

\* a free worker takes the next queued task
TaskStart(i) ==
    /\ pc = "pool"
    /\ tasks[i] = "pending"
    /\ \A j \in DOMAIN tasks : j < i => tasks[j] # "pending"
    /\ Cardinality({j \in DOMAIN tasks : tasks[j] = "running"}) < run.max_workers
    /\ tasks' = [tasks EXCEPT ![i] = "running"]
    /\ UNCHANGED << files, ledger, pc, run, papers, finished, processed_papers, call, fetchVars >>

\* process_single_paper returns for task i
TaskFinish(i, downloaded, api) ==
    /\ pc = "pool"
    /\ tasks[i] = "running"
    /\ papers' = [papers EXCEPT ![i] = process_single_paper(papers[i], downloaded, api)]
    /\ tasks' = [tasks EXCEPT ![i] = "done"]
    /\ finished' = Append(finished, i)
    /\ UNCHANGED << files, ledger, pc, run, processed_papers, call, fetchVars >>

\* as_completed yields the next finished future; its result is collected
Collect ==
    /\ pc = "pool"
    /\ finished # << >>
    /\ processed_papers' = collect(processed_papers, papers[Head(finished)])
    /\ finished' = Tail(finished)
    /\ UNCHANGED << files, ledger, pc, run, papers, tasks, call, fetchVars >>

\* the collecting loop is left as soon as nothing more is ready to collect
pool_joined_Early(task_states, ready) ==
    /\ \E i \in DOMAIN task_states : task_states[i] = "done"
    /\ ready = << >>

\* the as_completed loop has yielded every future and the with block of the
\* executor has been left (shutdown waits for the workers)
pool_joined(task_states, ready) ==
    /\ \A i \in DOMAIN task_states : task_states[i] = "done"
    /\ ready = << >>

\* all futures were yielded, the pool is shut down; the weekly file is found
\* or created and the section is merged into it
UpdateDocument ==
    /\ pc = "pool"
    /\ pool_joined(tasks, finished)
    /\ LET weekly_file == weekly_filepath(run.target_date)
       IN  files' = IF weekly_file = None THEN files
                    ELSE update_markdown_file(find_or_create_weekly_file(files, run.target_date),
                                              weekly_file, processed_papers, run.target_date)
    /\ pc' = "ledger"
    /\ UNCHANGED << ledger, run, papers, tasks, finished, processed_papers, call, fetchVars >>

\* the date is recorded in the ledger, the run returns
RecordDate ==
    /\ pc = "ledger"
    /\ ledger' = append_to_processed(ledger, run.target_date)
    /\ run' = [target_date |-> run.target_date, max_workers |-> 0, result |-> "done"]
    /\ Returned
    /\ UNCHANGED << files, call, fetchVars >>

Next ==
    \/ \E target_date \in RunDates : AlreadyProcessed(target_date)
    \/ \E target_date \in RunDates, page \in RunPages : NoPapers(target_date, page)
    \/ \E target_date \in RunDates, max_workers \in 1..MaxWorkers, max_papers \in RunLimits,
          page \in RunPages : Submit(target_date, max_workers, max_papers, page)
    \/ \E i \in DOMAIN tasks : TaskStart(i)
    \/ \E i \in DOMAIN tasks, downloaded \in BOOLEAN, api \in ApiResults :
          TaskFinish(i, downloaded, api)
    \/ Collect
    \/ UpdateDocument
    \/ RecordDate

Spec == Init /\ [][Next]_vars

\* the weekly file of the run's date
RunFile == weekly_filepath(run.target_date)

\* the section of the run's date in its weekly file, "" when there is none
RunSection ==
    IF RunFile = None \/ RunFile \notin DOMAIN files THEN ""
    ELSE DateSection(files[RunFile], run.target_date)

\* ------------------------------------------------------------------------
\* C15
\* ------------------------------------------------------------------------

\* the value of the institution line of the detailed entry with this title,
\* as it stands in the section
InstitutionLine(section, title) ==
    LET block == PyFrom(section, FirstAt(section, "] " \o title \o "**\n"))
        key == "  - **institution:** "
        rest == PyFrom(block, FirstAt(block, key) + Len(key))
    IN  PyTo(rest, FirstAt(rest, "\n"))

\* C15: in the written section, the institution line of a cs.DC entry whose
\* record has no institution value reads TBD, both when the field was never
\* set and when the enrichment set it to the empty string.
C15_InstitutionPlaceholder ==
    (pc = "ledger" /\ RunFile # None) =>
        \A k \in DOMAIN processed_papers :
            (IsCsDC(processed_papers[k]) /\ Get(processed_papers[k], "institution", "") = "")
                => InstitutionLine(RunSection, processed_papers[k].title) = "TBD"

\* ------------------------------------------------------------------------
\* C16
\* ------------------------------------------------------------------------

\* C16: two records of one batch that workers process at the same time,
\* their identifiers being distinct, have distinct temporary file names.
C16_DistinctArtifactNames ==
    pc = "pool" =>
        \A i, j \in DOMAIN papers :
            (/\ i # j
             /\ tasks[i] = "running" /\ tasks[j] = "running"
             /\ downloads_pdf(papers[i]) /\ downloads_pdf(papers[j])
             /\ papers[i].id # papers[j].id)
                => pdf_filename(papers[i]) # pdf_filename(papers[j])

\* ------------------------------------------------------------------------
\* C6
\* ------------------------------------------------------------------------

\* C6: a run for a date of which no record is retained still leaves a
\* section for that date in the weekly document, its body being the
\* no-results placeholder line.
C6_EmptyRunWritesPlaceholder ==
    (pc = "idle" /\ run.result = "no_papers" /\ RunFile # None) =>
        RStrip(RunSection) = RStrip(papers_content(<< >>, run.target_date))

\* ------------------------------------------------------------------------
\* C7
\* ------------------------------------------------------------------------

\* C7: with a pool of width >= 2, the entries of the written section stand
\* in the order of the retained sequence of the classification stage (the
\* order of papers), whatever the order in which the tasks completed.
C7_ClassificationOrder ==
    (pc = "ledger" /\ run.max_workers >= 2 /\ RunFile # None) =>
        RStrip(RunSection) = RStrip(papers_content(papers, run.target_date))

\* ------------------------------------------------------------------------
\* C8
\* ------------------------------------------------------------------------

\* the positions of the record with identifier id in the collected list
CollectedAt(id) == {k \in DOMAIN processed_papers : processed_papers[k].id = id}

\* C8: every submitted record is exactly once in the result list handed to
\* the assembler, and is at no time in it twice, whatever the interleaving
\* of the workers and whichever enrichments failed.
C8_EachRecordOnce ==
    /\ \A i \in DOMAIN papers : Cardinality(CollectedAt(papers[i].id)) <= 1
    /\ pc = "ledger" =>
          /\ Len(processed_papers) = Len(papers)
          /\ \A i \in DOMAIN papers : Cardinality(CollectedAt(papers[i].id)) = 1

\* a pool of width 2 handed over three records, collected in another order
\* than submitted, the download of a cs.DC record having failed
C8_Witness ==
    /\ pc = "ledger"
    /\ run.max_workers = 2
    /\ Len(papers) = 3
    /\ \E i \in DOMAIN papers : IsCsDC(papers[i]) /\ "simple_only" \notin DOMAIN papers[i]
    /\ \E k \in DOMAIN processed_papers : processed_papers[k].id # papers[k].id

\* ------------------------------------------------------------------------
\* C9
\* ------------------------------------------------------------------------

\* C9: a date is added to the ledger only by a run that fetched and parsed
\* the listing without failure, located the weekly file and wrote the
\* section of the date into it.
C9_LedgerOnlyAfterSuccess ==
    [][ledger' # ledger =>
          /\ run'.result # "fetch_failed"
          /\ weekly_filepath(run'.target_date) # None
          /\ weekly_filepath(run'.target_date) \in DOMAIN files'
          /\ HeaderCount(files'[weekly_filepath(run'.target_date)], run'.target_date) = 1]_vars

\* ------------------------------------------------------------------------
\* C17
\* ------------------------------------------------------------------------

\* no task of the pool is waiting or running
NoWorkerBusy == \A i \in DOMAIN tasks : tasks[i] = "done"

\* C17: the step that reads and rewrites the weekly document is taken only
\* when every submitted task has finished and its result is collected, and
\* the ledger is extended only after that step, no worker being busy at
\* either step.
C17_DocumentAfterPool ==
    [][/\ (files' # files \/ (pc = "pool" /\ pc' = "ledger")) =>
             /\ NoWorkerBusy
             /\ Len(processed_papers) = Len(tasks)
       /\ ledger' # ledger =>
             /\ NoWorkerBusy
             /\ tasks # << >> => pc = "ledger"]_vars

\* a pool of width 2 has finished two cs.DC records, the section is
\* written and the date is not yet in the ledger
C17_Witness ==
    /\ pc = "ledger"
    /\ run.max_workers = 2
    /\ Len(tasks) = 2
    /\ \A i \in DOMAIN papers : IsCsDC(papers[i])
    /\ RunFile # None
    /\ RunFile \in DOMAIN files
    /\ HeaderCount(files[RunFile], run.target_date) = 1
    /\ ~already_processed(ledger, run.target_date)

====
